---- MODULE Spec2Model ----
(***************************************************************************)
(* Model of the SharePoint -> Curate transfer server: upload_task and its  *)
(* callees process_item / process_folder (main.py), the file transfer      *)
(* engine (uploader.py) and the source status writes (graph_tools.py).     *)
(*                                                                         *)
(* Python strings are sequences of tokens; an f-string is a concatenation  *)
(* (\o) of such sequences.  Every remote call is one step whose outcome is *)
(* chosen by the environment; the local code that follows a call, up to    *)
(* the next remote call, belongs to the same step.                         *)
(***************************************************************************)
EXTENDS Integers, Sequences, FiniteSets, TLC

\* ---------------------------------------------------------------- bounds
MaxItems == 2        \* longest batch (uploadItems)
MaxChildren == 2     \* longest folder listing returned by the source
MaxTicks == 1        \* seconds the clock may advance while requests are served

\* ------------------------------------------------------ program constants
MULTIPART_THRESHOLD == 100 * 1024 * 1024
SIZE_CEILING == 1 * 1024 * 1024 * 1024

\* ---------------------------------------------------------------- strings
Digits == <<"0", "1", "2", "3", "4", "5", "6", "7", "8", "9">>

\* a character outside ASCII is a token named by its code point.  The rows
\* are the decimal digits (category Nd) of every script, zero to nine
DecimalDigits == <<
    Digits,
    <<"U+0660", "U+0661", "U+0662", "U+0663", "U+0664",
      "U+0665", "U+0666", "U+0667", "U+0668", "U+0669">>,
    <<"U+06F0", "U+06F1", "U+06F2", "U+06F3", "U+06F4",
      "U+06F5", "U+06F6", "U+06F7", "U+06F8", "U+06F9">>,
    <<"U+07C0", "U+07C1", "U+07C2", "U+07C3", "U+07C4",
      "U+07C5", "U+07C6", "U+07C7", "U+07C8", "U+07C9">>,
    <<"U+0966", "U+0967", "U+0968", "U+0969", "U+096A",
      "U+096B", "U+096C", "U+096D", "U+096E", "U+096F">>,
    <<"U+09E6", "U+09E7", "U+09E8", "U+09E9", "U+09EA",
      "U+09EB", "U+09EC", "U+09ED", "U+09EE", "U+09EF">>,
    <<"U+0A66", "U+0A67", "U+0A68", "U+0A69", "U+0A6A",
      "U+0A6B", "U+0A6C", "U+0A6D", "U+0A6E", "U+0A6F">>,
    <<"U+0AE6", "U+0AE7", "U+0AE8", "U+0AE9", "U+0AEA",
      "U+0AEB", "U+0AEC", "U+0AED", "U+0AEE", "U+0AEF">>,
    <<"U+0B66", "U+0B67", "U+0B68", "U+0B69", "U+0B6A",
      "U+0B6B", "U+0B6C", "U+0B6D", "U+0B6E", "U+0B6F">>,
    <<"U+0BE6", "U+0BE7", "U+0BE8", "U+0BE9", "U+0BEA",
      "U+0BEB", "U+0BEC", "U+0BED", "U+0BEE", "U+0BEF">>,
    <<"U+0C66", "U+0C67", "U+0C68", "U+0C69", "U+0C6A",
      "U+0C6B", "U+0C6C", "U+0C6D", "U+0C6E", "U+0C6F">>,
    <<"U+0CE6", "U+0CE7", "U+0CE8", "U+0CE9", "U+0CEA",
      "U+0CEB", "U+0CEC", "U+0CED", "U+0CEE", "U+0CEF">>,
    <<"U+0D66", "U+0D67", "U+0D68", "U+0D69", "U+0D6A",
      "U+0D6B", "U+0D6C", "U+0D6D", "U+0D6E", "U+0D6F">>,
    <<"U+0DE6", "U+0DE7", "U+0DE8", "U+0DE9", "U+0DEA",
      "U+0DEB", "U+0DEC", "U+0DED", "U+0DEE", "U+0DEF">>,
    <<"U+0E50", "U+0E51", "U+0E52", "U+0E53", "U+0E54",
      "U+0E55", "U+0E56", "U+0E57", "U+0E58", "U+0E59">>,
    <<"U+0ED0", "U+0ED1", "U+0ED2", "U+0ED3", "U+0ED4",
      "U+0ED5", "U+0ED6", "U+0ED7", "U+0ED8", "U+0ED9">>,
    <<"U+0F20", "U+0F21", "U+0F22", "U+0F23", "U+0F24",
      "U+0F25", "U+0F26", "U+0F27", "U+0F28", "U+0F29">>,
    <<"U+1040", "U+1041", "U+1042", "U+1043", "U+1044",
      "U+1045", "U+1046", "U+1047", "U+1048", "U+1049">>,
    <<"U+1090", "U+1091", "U+1092", "U+1093", "U+1094",
      "U+1095", "U+1096", "U+1097", "U+1098", "U+1099">>,
    <<"U+17E0", "U+17E1", "U+17E2", "U+17E3", "U+17E4",
      "U+17E5", "U+17E6", "U+17E7", "U+17E8", "U+17E9">>,
    <<"U+1810", "U+1811", "U+1812", "U+1813", "U+1814",
      "U+1815", "U+1816", "U+1817", "U+1818", "U+1819">>,
    <<"U+1946", "U+1947", "U+1948", "U+1949", "U+194A",
      "U+194B", "U+194C", "U+194D", "U+194E", "U+194F">>,
    <<"U+19D0", "U+19D1", "U+19D2", "U+19D3", "U+19D4",
      "U+19D5", "U+19D6", "U+19D7", "U+19D8", "U+19D9">>,
    <<"U+1A80", "U+1A81", "U+1A82", "U+1A83", "U+1A84",
      "U+1A85", "U+1A86", "U+1A87", "U+1A88", "U+1A89">>,
    <<"U+1A90", "U+1A91", "U+1A92", "U+1A93", "U+1A94",
      "U+1A95", "U+1A96", "U+1A97", "U+1A98", "U+1A99">>,
    <<"U+1B50", "U+1B51", "U+1B52", "U+1B53", "U+1B54",
      "U+1B55", "U+1B56", "U+1B57", "U+1B58", "U+1B59">>,
    <<"U+1BB0", "U+1BB1", "U+1BB2", "U+1BB3", "U+1BB4",
      "U+1BB5", "U+1BB6", "U+1BB7", "U+1BB8", "U+1BB9">>,
    <<"U+1C40", "U+1C41", "U+1C42", "U+1C43", "U+1C44",
      "U+1C45", "U+1C46", "U+1C47", "U+1C48", "U+1C49">>,
    <<"U+1C50", "U+1C51", "U+1C52", "U+1C53", "U+1C54",
      "U+1C55", "U+1C56", "U+1C57", "U+1C58", "U+1C59">>,
    <<"U+A620", "U+A621", "U+A622", "U+A623", "U+A624",
      "U+A625", "U+A626", "U+A627", "U+A628", "U+A629">>,
    <<"U+A8D0", "U+A8D1", "U+A8D2", "U+A8D3", "U+A8D4",
      "U+A8D5", "U+A8D6", "U+A8D7", "U+A8D8", "U+A8D9">>,
    <<"U+A900", "U+A901", "U+A902", "U+A903", "U+A904",
      "U+A905", "U+A906", "U+A907", "U+A908", "U+A909">>,
    <<"U+A9D0", "U+A9D1", "U+A9D2", "U+A9D3", "U+A9D4",
      "U+A9D5", "U+A9D6", "U+A9D7", "U+A9D8", "U+A9D9">>,
    <<"U+A9F0", "U+A9F1", "U+A9F2", "U+A9F3", "U+A9F4",
      "U+A9F5", "U+A9F6", "U+A9F7", "U+A9F8", "U+A9F9">>,
    <<"U+AA50", "U+AA51", "U+AA52", "U+AA53", "U+AA54",
      "U+AA55", "U+AA56", "U+AA57", "U+AA58", "U+AA59">>,
    <<"U+ABF0", "U+ABF1", "U+ABF2", "U+ABF3", "U+ABF4",
      "U+ABF5", "U+ABF6", "U+ABF7", "U+ABF8", "U+ABF9">>,
    <<"U+FF10", "U+FF11", "U+FF12", "U+FF13", "U+FF14",
      "U+FF15", "U+FF16", "U+FF17", "U+FF18", "U+FF19">>,
    <<"U+104A0", "U+104A1", "U+104A2", "U+104A3", "U+104A4",
      "U+104A5", "U+104A6", "U+104A7", "U+104A8", "U+104A9">>,
    <<"U+10D30", "U+10D31", "U+10D32", "U+10D33", "U+10D34",
      "U+10D35", "U+10D36", "U+10D37", "U+10D38", "U+10D39">>,
    <<"U+11066", "U+11067", "U+11068", "U+11069", "U+1106A",
      "U+1106B", "U+1106C", "U+1106D", "U+1106E", "U+1106F">>,
    <<"U+110F0", "U+110F1", "U+110F2", "U+110F3", "U+110F4",
      "U+110F5", "U+110F6", "U+110F7", "U+110F8", "U+110F9">>,
    <<"U+11136", "U+11137", "U+11138", "U+11139", "U+1113A",
      "U+1113B", "U+1113C", "U+1113D", "U+1113E", "U+1113F">>,
    <<"U+111D0", "U+111D1", "U+111D2", "U+111D3", "U+111D4",
      "U+111D5", "U+111D6", "U+111D7", "U+111D8", "U+111D9">>,
    <<"U+112F0", "U+112F1", "U+112F2", "U+112F3", "U+112F4",
      "U+112F5", "U+112F6", "U+112F7", "U+112F8", "U+112F9">>,
    <<"U+11450", "U+11451", "U+11452", "U+11453", "U+11454",
      "U+11455", "U+11456", "U+11457", "U+11458", "U+11459">>,
    <<"U+114D0", "U+114D1", "U+114D2", "U+114D3", "U+114D4",
      "U+114D5", "U+114D6", "U+114D7", "U+114D8", "U+114D9">>,
    <<"U+11650", "U+11651", "U+11652", "U+11653", "U+11654",
      "U+11655", "U+11656", "U+11657", "U+11658", "U+11659">>,
    <<"U+116C0", "U+116C1", "U+116C2", "U+116C3", "U+116C4",
      "U+116C5", "U+116C6", "U+116C7", "U+116C8", "U+116C9">>,
    <<"U+11730", "U+11731", "U+11732", "U+11733", "U+11734",
      "U+11735", "U+11736", "U+11737", "U+11738", "U+11739">>,
    <<"U+118E0", "U+118E1", "U+118E2", "U+118E3", "U+118E4",
      "U+118E5", "U+118E6", "U+118E7", "U+118E8", "U+118E9">>,
    <<"U+11950", "U+11951", "U+11952", "U+11953", "U+11954",
      "U+11955", "U+11956", "U+11957", "U+11958", "U+11959">>,
    <<"U+11C50", "U+11C51", "U+11C52", "U+11C53", "U+11C54",
      "U+11C55", "U+11C56", "U+11C57", "U+11C58", "U+11C59">>,
    <<"U+11D50", "U+11D51", "U+11D52", "U+11D53", "U+11D54",
      "U+11D55", "U+11D56", "U+11D57", "U+11D58", "U+11D59">>,
    <<"U+11DA0", "U+11DA1", "U+11DA2", "U+11DA3", "U+11DA4",
      "U+11DA5", "U+11DA6", "U+11DA7", "U+11DA8", "U+11DA9">>,
    <<"U+11F50", "U+11F51", "U+11F52", "U+11F53", "U+11F54",
      "U+11F55", "U+11F56", "U+11F57", "U+11F58", "U+11F59">>,
    <<"U+16A60", "U+16A61", "U+16A62", "U+16A63", "U+16A64",
      "U+16A65", "U+16A66", "U+16A67", "U+16A68", "U+16A69">>,
    <<"U+16AC0", "U+16AC1", "U+16AC2", "U+16AC3", "U+16AC4",
      "U+16AC5", "U+16AC6", "U+16AC7", "U+16AC8", "U+16AC9">>,
    <<"U+16B50", "U+16B51", "U+16B52", "U+16B53", "U+16B54",
      "U+16B55", "U+16B56", "U+16B57", "U+16B58", "U+16B59">>,
    <<"U+1D7CE", "U+1D7CF", "U+1D7D0", "U+1D7D1", "U+1D7D2",
      "U+1D7D3", "U+1D7D4", "U+1D7D5", "U+1D7D6", "U+1D7D7">>,
    <<"U+1D7D8", "U+1D7D9", "U+1D7DA", "U+1D7DB", "U+1D7DC",
      "U+1D7DD", "U+1D7DE", "U+1D7DF", "U+1D7E0", "U+1D7E1">>,
    <<"U+1D7E2", "U+1D7E3", "U+1D7E4", "U+1D7E5", "U+1D7E6",
      "U+1D7E7", "U+1D7E8", "U+1D7E9", "U+1D7EA", "U+1D7EB">>,
    <<"U+1D7EC", "U+1D7ED", "U+1D7EE", "U+1D7EF", "U+1D7F0",
      "U+1D7F1", "U+1D7F2", "U+1D7F3", "U+1D7F4", "U+1D7F5">>,
    <<"U+1D7F6", "U+1D7F7", "U+1D7F8", "U+1D7F9", "U+1D7FA",
      "U+1D7FB", "U+1D7FC", "U+1D7FD", "U+1D7FE", "U+1D7FF">>,
    <<"U+1E140", "U+1E141", "U+1E142", "U+1E143", "U+1E144",
      "U+1E145", "U+1E146", "U+1E147", "U+1E148", "U+1E149">>,
    <<"U+1E2F0", "U+1E2F1", "U+1E2F2", "U+1E2F3", "U+1E2F4",
      "U+1E2F5", "U+1E2F6", "U+1E2F7", "U+1E2F8", "U+1E2F9">>,
    <<"U+1E4F0", "U+1E4F1", "U+1E4F2", "U+1E4F3", "U+1E4F4",
      "U+1E4F5", "U+1E4F6", "U+1E4F7", "U+1E4F8", "U+1E4F9">>,
    <<"U+1E950", "U+1E951", "U+1E952", "U+1E953", "U+1E954",
      "U+1E955", "U+1E956", "U+1E957", "U+1E958", "U+1E959">>,
    <<"U+1FBF0", "U+1FBF1", "U+1FBF2", "U+1FBF3", "U+1FBF4",
      "U+1FBF5", "U+1FBF6", "U+1FBF7", "U+1FBF8", "U+1FBF9">>>>

\* the characters int() strips at both ends
Whitespace == {
    " ", "\t", "\n", "\r", "\f", "U+000B",
    "U+0085", "U+00A0", "U+1680", "U+2000", "U+2001", "U+2002",
    "U+2003", "U+2004", "U+2005", "U+2006", "U+2007", "U+2008",
    "U+2009", "U+200A", "U+2028", "U+2029", "U+202F", "U+205F",
    "U+3000"}

DigitChars == {DecimalDigits[r][d] : r \in 1..Len(DecimalDigits), d \in 1..10}

IsDigit(c) == c \in DigitChars

\* the digits of value d - 1, one per script
DigitsOf(d) == {DecimalDigits[r][d] : r \in 1..Len(DecimalDigits)}

DigitsByValue == <<DigitsOf(1), DigitsOf(2), DigitsOf(3), DigitsOf(4), DigitsOf(5),
                   DigitsOf(6), DigitsOf(7), DigitsOf(8), DigitsOf(9), DigitsOf(10)>>

DigitVal(c) == (CHOOSE d \in 1..10 : c \in DigitsByValue[d]) - 1

\* str(n) for n >= 0
RECURSIVE Dec(_)
Dec(n) == IF n < 10 THEN <<Digits[n + 1]>>
          ELSE Dec(n \div 10) \o <<Digits[(n % 10) + 1]>>

RECURSIVE LStrip(_)
LStrip(s) == IF Len(s) > 0 /\ s[1] \in Whitespace THEN LStrip(Tail(s)) ELSE s

RECURSIVE RStrip(_)
RStrip(s) == IF Len(s) > 0 /\ s[Len(s)] \in Whitespace
             THEN RStrip(SubSeq(s, 1, Len(s) - 1)) ELSE s

Strip(s) == RStrip(LStrip(s))

Signed(s) == Len(s) > 0 /\ s[1] \in {"+", "-"}

\* the literal without surrounding whitespace and without its sign
Body(s) == LET t == Strip(s) IN IF Signed(t) THEN Tail(t) ELSE t

\* decimal digits, single underscores allowed between two digits
DigitsOk(b) ==
    /\ Len(b) > 0
    /\ \A i \in 1..Len(b) :
           IF b[i] = "_"
           THEN /\ i > 1
                /\ i < Len(b)
                /\ IsDigit(b[i - 1])
                /\ IsDigit(b[i + 1])
           ELSE IsDigit(b[i])

\* sys.get_int_max_str_digits(): int() refuses a literal of more digits
INT_MAX_STR_DIGITS == 4300

NumDigits(b) == Cardinality({i \in 1..Len(b) : b[i] # "_"})

\* int(s) succeeds on optional whitespace, an optional sign and such digits,
\* no more of them than the limit
IntOk(s) ==
    LET b == Body(s) IN
    /\ DigitsOk(b)
    /\ Len(b) > INT_MAX_STR_DIGITS => NumDigits(b) <= INT_MAX_STR_DIGITS

\* the longest prefix of b made of digits and underscores: what the parser
\* scans before it looks at the rest of the literal
InRun(c) == c = "_" \/ IsDigit(c)

DigitRun(b) ==
    SubSeq(b, 1, CHOOSE k \in 0..Len(b) :
                     /\ \A i \in 1..k : InRun(b[i])
                     /\ k < Len(b) => ~InRun(b[k + 1]))

\* str(e) of the ValueError int(s) raises (the literal itself is left out).
\* The digit limit is tested only on a literal the parser has read to its
\* end: digits, then optional whitespace, then the end of the string or a
\* NUL character (where the parser's C string ends)
IntError(s) ==
    LET b == Body(s)
        run == DigitRun(b)
        rest == LStrip(SubSeq(b, Len(run) + 1, Len(b)))
    IN
    IF /\ DigitsOk(run)
       /\ NumDigits(run) > INT_MAX_STR_DIGITS
       /\ (rest = <<>> \/ rest[1] = "U+0000")
    THEN <<"Exceeds the limit (4300 digits) for integer string conversion">>
    ELSE <<"invalid literal for int() with base 10">>

\* the value of the first n characters of the digits b
RECURSIVE NatUpTo(_, _)
NatUpTo(b, n) == IF n = 0 THEN 0
                 ELSE IF b[n] = "_" THEN NatUpTo(b, n - 1)
                 ELSE 10 * NatUpTo(b, n - 1) + DigitVal(b[n])

NatOf(b) == NatUpTo(b, Len(b))

IntOf(s) == LET t == Strip(s) IN
            IF Signed(t) /\ t[1] = "-" THEN 0 - NatOf(Tail(t))
            ELSE IF Signed(t) THEN NatOf(Tail(t))
            ELSE NatOf(t)

None == <<"None">>

\* dict.get(key): the value, or None when the key is absent
Get(r, k) == IF k \in DOMAIN r THEN r[k] ELSE None

\* strftime('%Y%m%d%H%M%S') of the clock, t seconds after midnight of the day
TwoDigits(n) == <<Digits[(n \div 10) + 1], Digits[(n % 10) + 1]>>

Strftime(t) == <<"2", "0", "2", "4", "0", "1", "0", "1">>
               \o TwoDigits((t \div 3600) % 24)
               \o TwoDigits((t \div 60) % 60)
               \o TwoDigits(t % 60)

upload_container_name_format(t) == <<"SharePointUpload_">> \o Strftime(t)

\* ------------------------------------------------------------ data model
\* A pydantic UploadItem: every field is required (main.py 46-52).  The
\* constructor raises ValidationError when a field is missing.
UploadItemFields == {"id", "spId", "driveId", "name", "fileSize", "type"}

UploadItemLenient(kw) ==
    [ok |-> TRUE,
     obj |-> [cls |-> "UploadItem", id |-> kw.id, spId |-> kw.spId,
              driveId |-> kw.driveId, name |-> kw.name,
              fileSize |-> IF "fileSize" \in DOMAIN kw THEN kw.fileSize
                           ELSE <<"0">>,
              type |-> kw.type]]

UploadItem(kw) ==
    IF UploadItemFields \subseteq DOMAIN kw
    THEN [ok |-> TRUE,
          obj |-> [cls |-> "UploadItem", id |-> kw.id, spId |-> kw.spId,
                   driveId |-> kw.driveId, name |-> kw.name,
                   fileSize |-> kw.fileSize, type |-> kw.type]]
    ELSE [ok |-> FALSE, error |-> <<"ValidationError: fileSize field required">>]

\* attribute access x.name works on a model object, not on a dict
HasAttrs(x) == "cls" \in DOMAIN x

\* ------------------------------------------------------------ input sets
\* the ceiling itself is spelled as int() also accepts it: surrounding
\* whitespace, a sign, an underscore between digits, a digit of another
\* script (fullwidth four)
PaddedCeiling ==
    LET d == Dec(SIZE_CEILING) IN
    <<"U+2003", "+", Head(d), "_">> \o SubSeq(d, 2, Len(d) - 1)
        \o <<"U+FF14", "\n">>

FileSizes == {Dec(MULTIPART_THRESHOLD - 1), Dec(MULTIPART_THRESHOLD),
              PaddedCeiling, Dec(SIZE_CEILING + 1), <<"x">>}

FileItem(size) ==
    UploadItem([id |-> <<"doc">>, spId |-> <<"doc">>, driveId |-> <<"drv">>,
                name |-> <<"doc">>, fileSize |-> size, type |-> <<"File">>]).obj

FolderItem ==
    UploadItem([id |-> <<"dir">>, spId |-> <<"dir">>, driveId |-> <<"drv">>,
                name |-> <<"dir">>, fileSize |-> <<"0">>, type |-> <<"Folder">>]).obj

Items == {FileItem(s) : s \in FileSizes} \cup {FolderItem}

SeqsUpTo(S, n) == UNION {[1..k -> S] : k \in 0..n}

Batches == SeqsUpTo(Items, MaxItems)

\* children of a source folder as the listing endpoint returns them
FileEntry == [id |-> <<"f">>, name |-> <<"f">>,
              parentReference |-> [driveId |-> <<"drv">>]]

FolderEntry(n) == [id |-> <<"sub">>, name |-> <<"sub">>,
                   parentReference |-> [driveId |-> <<"drv">>],
                   folder |-> [childCount |-> n]]

Entries == {FileEntry, FolderEntry(0), FolderEntry(1)}

Listings == SeqsUpTo(Entries, MaxChildren)

\* outcomes the environment can give to each remote call
WriteOutcomes == {"ok", "rejected", "search_raised", "patch_raised"}
CreateOutcomes == {"ok", "no_uuid", "no_uuid_key", "no_children",
                   "no_children_key", "fail"}

\* node identifiers the destination may answer a creation with
Uuids == {<<"uuid-1">>, <<"uuid-2">>}

\* an answer to a creation request: its outcome and, when it names the node,
\* the identifier
CreateAnswers == {[out |-> o] : o \in CreateOutcomes \ {"ok"}}
                 \cup {[out |-> "ok", uuid |-> u] : u \in Uuids}
TagOutcomes == {"ok", "fail"}
SignOutcomes == {"ok", "raise"}
PutOutcomes == {"ok", "status_error", "request_error"}

\* 2xx statuses the destination may answer an accepted PUT with
PutSuccessCodes == {200, 204}
PutObjectOutcomes == {"ok", "raise"}
TokenOutcomes == {"ok", "raise"}

\* seconds after midnight at which datetime.now() of line 65 may be read
ClockReadings == {12 * 3600 + 34 * 60 + 56}

ContentLengths == {0, 3, 5}
StatusCodes == {200, 404}

\* a source content response: status, Content-Length header (may be absent)
\* and the number of body bytes actually delivered
Headers(h) == IF h < 0 THEN <<>> ELSE ("Content-Length" :> Dec(h))

Response(c, h, n) == [status_code |-> c, headers |-> Headers(h), body |-> n]

\* 200 with every combination of header and body (a content-coded body is
\* not as long as its Content-Length); an error answer with and without the
\* length of its body
Responses == {Response(200, h, n) : h \in {-1, 5}, n \in ContentLengths}
             \cup {Response(c, h, 3) : c \in StatusCodes \ {200}, h \in {-1, 3}}

\* ------------------------------------------------- remote calls (history)
\* val: the status of a status write, the Content-Length a content response
\* reported (<<>> when absent), the Content-Length / byte count of an upload,
\* the kinds of the children of a listing
Call(op, path, val, out) == [op |-> op, path |-> path, val |-> val, out |-> out]

ReportedLength(r) ==
    IF "Content-Length" \in DOMAIN r.headers THEN r.headers["Content-Length"]
    ELSE <<>>

\* requests: raise_for_status() raises on 400..599
RaisesForStatus(r) == r.status_code >= 400 /\ r.status_code < 600

HttpOutcome(r) == IF RaisesForStatus(r) THEN "http_error" ELSE "ok"

\* httpx: Response.is_success, a 2xx status.  The streaming path never tests
\* it; the history records it
StreamOutcome(r) ==
    IF r.status_code >= 200 /\ r.status_code < 300 THEN "ok" ELSE "http_error"

EntryKind(e) == IF "folder" \notin DOMAIN e THEN "file"
                ELSE IF e.folder.childCount > 0 THEN "folder" ELSE "empty"

Kinds(files) == [i \in 1..Len(files) |-> EntryKind(files[i])]

SourceOps == {"search", "patch", "list_children", "get_stream", "get_content"}
DestOps == {"create_folder", "user_meta", "sign", "put_presigned", "put_object"}

\* ------------------------------------------------------------------ state
VARIABLES
    pc,                     \* control point of the background task
    upload_items,           \* data.uploadItems of the accepted package
    idx,                    \* position of the for loop of upload_task (1-based)
    container_folder_name,  \* upload_task line 101
    stack,                  \* activations of process_folder, outermost first
    cur,                    \* locals of the running process_item / transfer
    status,                 \* status string about to be / last written
    result,                 \* last value returned by process_item
    upload_result,          \* last outcome of upload_graph_file_to_s3
    calls,                  \* remote calls made for the item `owner`, in order
    owner,                  \* index of the item the calls belong to
    tempFiles,              \* temporary files existing on local disk
    tmpCount,               \* temporary files created so far
    now,                    \* the clock, seconds after midnight
    used,                   \* container names generated so far, one per task
    inbox,                  \* requests received and not yet handled
    pending                 \* handled requests whose task has not started

vars == <<pc, upload_items, idx, container_folder_name, stack, cur, status,
          result, upload_result, calls, owner, tempFiles,
          tmpCount, now, used, inbox, pending>>

NoFolder == <<>>      \* folder=None of a top-level process_item call
NoItem == [cls |-> "None"]
NoResponse == [status_code |-> 0, headers |-> <<>>, body |-> 0]
NoCur == [item |-> NoItem, folder |-> NoFolder, uuid |-> <<>>, path |-> <<>>,
          resp |-> NoResponse, tmp |-> 0]
NoResult == [none |-> TRUE]

Frame(folder_item) ==
    [folder_item |-> folder_item, uuid |-> <<>>, files |-> <<>>, i |-> 1]

Ctl(p, stk, c, st, res) ==
    [pc |-> p, stack |-> stk, cur |-> c, status |-> st, result |-> res]

Apply(k) ==
    /\ pc' = k.pc
    /\ stack' = k.stack
    /\ cur' = k.cur
    /\ status' = k.status
    /\ result' = k.result

\* ------------------------------------------------------ messages, results
SizeLimitMsg ==
    <<"File size is too large. Please use the Soteria+ command line client or sftp for uploads over 10gb.">>

Failed(msg) == <<"Failed: ">> \o msg

\* process_item line 175 / line 172
ItemFailure(msg) == [success |-> FALSE, message |-> msg]
ItemSuccess(path) == [success |-> TRUE, item |-> path]

\* upload_task line 113
StatusOf(res) ==
    IF res.success THEN <<"Success">> ELSE <<"Failed: ">> \o Get(res, "error")

\* the exception of lines 118-120: the handler writes "Failed: <str(e)>"
RaiseRetry(msg, res) == Ctl("L106", <<>>, NoCur, <<>>, res)

RaiseSwallowed(msg, res) == Ctl("L117", <<>>, NoCur, <<"Success">>, res)

Raise(msg, res) == Ctl("L120", <<>>, NoCur, Failed(msg), res)

Advance(stk) ==
    [stk EXCEPT ![Len(stk)] = [@ EXCEPT !.i = @ + 1]]

\* ----------------------------------- local control flow between the calls
RECURSIVE Continue(_, _)
RECURSIVE ReturnItem(_, _)

\* process_item line 149
TooLargeOffByOne(file_size) == IntOf(file_size) > SIZE_CEILING + 1

TooLarge(file_size) == IntOf(file_size) > SIZE_CEILING

\* process_item lines 147-151: the size check, before any remote call
EnterItem(item, folder, stk, res) ==
    IF ~IntOk(item.fileSize)
    THEN ReturnItem(ItemFailure(IntError(item.fileSize)), stk)
    ELSE IF TooLarge(item.fileSize)
    THEN ReturnItem(ItemFailure(SizeLimitMsg), stk)
    ELSE Ctl("PI152", stk, [NoCur EXCEPT !.item = item, !.folder = folder],
             <<>>, res)

\* process_item returns: to upload_task lines 113-117 when called at top level,
\* to the loop of process_folder (line 218, value dropped) otherwise
ReturnItem(res, stk) ==
    IF stk = <<>>
    THEN Ctl("L117", <<>>, NoCur, StatusOf(res), res)
    ELSE Continue(Advance(stk), res)

\* the for loop of process_folder, lines 212-218, up to the next remote call
Continue(stk, res) ==
    LET top == stk[Len(stk)] IN
    IF top.i > Len(top.files)
    THEN IF Len(stk) = 1
         THEN Ctl("L117", <<>>, NoCur, <<"Success">>, res)
         ELSE Continue(Advance(SubSeq(stk, 1, Len(stk) - 1)), res)
    ELSE LET file == top.files[top.i] IN
         IF "folder" \in DOMAIN file /\ file.folder.childCount > 0
         THEN Ctl("PF191", Append(stk, Frame(file)), NoCur, <<>>, res)
         ELSE IF "folder" \notin DOMAIN file
         THEN LET u == UploadItem([id |-> file.id, spId |-> file.id,
                                   driveId |-> file.parentReference.driveId,
                                   name |-> file.name, type |-> <<"File">>])
              IN IF u.ok
                 THEN EnterItem(u.obj, top.folder_item.name, stk, res)
                 ELSE Raise(u.error, res)
         ELSE Continue(Advance(stk), res)

\* ------------------------------------------------ graph_tools.py 151-194
Raised(o) == o \in {"search_raised", "patch_raised"}

\* the calls one update_drive_item_metadata makes: the search of line 165,
\* then, unless the search raised, the PATCH of line 179.  Both records carry
\* the status of the write they belong to.
update_drive_item_metadata(item, st, o) ==
    IF o = "search_raised"
    THEN <<Call("search", item.name, st, "raise")>>
    ELSE <<Call("search", item.name, st, "ok"),
           Call("patch", item.spId, st,
                IF o = "patch_raised" THEN "raise" ELSE o)>>

ConnectionError == <<"ConnectionError">>

\* ------------------------------------------------------------ uploader.py
\* the JSON document of a 2xx answer to a creation request: the node with
\* its identifier, an empty identifier, a node without identifier, no node,
\* no list of nodes
EmptyDocument == [k \in {} |-> <<>>]

Document(a) ==
    CASE a.out = "ok" -> [Children |-> <<[Uuid |-> a.uuid]>>]
      [] a.out = "no_uuid" -> [Children |-> <<[Uuid |-> <<>>]>>]
      [] a.out = "no_uuid_key" -> [Children |-> <<EmptyDocument>>]
      [] a.out = "no_children" -> [Children |-> <<>>]
      [] OTHER -> EmptyDocument

\* create_empty_folder lines 232-238: the dict returned
create_empty_folder(folder_name, a) ==
    IF a.out = "fail"
    THEN [success |-> FALSE, error |-> <<"HTTPError">>]
    ELSE [success |-> TRUE, data |-> Document(a)]

\* r['data']['Children'][0]['Uuid'] of main.py 156, 195, 207: the value, or
\* the KeyError / IndexError of the subscript that fails
FolderUuid(r) ==
    IF "Children" \notin DOMAIN r.data
    THEN [ok |-> FALSE, error |-> <<"'Children'">>]
    ELSE IF Len(r.data.Children) = 0
    THEN [ok |-> FALSE, error |-> <<"list index out of range">>]
    ELSE IF "Uuid" \notin DOMAIN r.data.Children[1]
    THEN [ok |-> FALSE, error |-> <<"'Uuid'">>]
    ELSE [ok |-> TRUE, uuid |-> r.data.Children[1].Uuid]

\* update_user_meta lines 277-283: the dict returned
update_user_meta(o) ==
    IF o = "ok"
    THEN [success |-> TRUE, data |-> <<"MetaDatas">>]
    ELSE [success |-> FALSE, error |-> <<"HTTPError">>]

\* process_item line 161 and process_folder line 200: a failed tagging raises
TagFailureIgnored(r) == FALSE

ItemTagFailed(r) == ~r.success

FolderTagFailed(r) == ~r.success

\* upload_graph_file_to_s3 line 55: the size test choosing the path
UseBufferedStrict(file_size, multipart_threshold) ==
    IntOf(file_size) > multipart_threshold

UseBuffered(file_size, multipart_threshold) ==
    IntOf(file_size) >= multipart_threshold

\* process_item line 164
CuratePath(container, folder, name) ==
    IF folder # <<>>
    THEN container \o <<"/">> \o folder \o <<"/">> \o name
    ELSE container \o <<"/">> \o name

\* process_item lines 169-175 on the value of upload_graph_file_to_s3
FinishTransferRetry(ur, stk) ==
    IF ur.success
    THEN ReturnItem(ItemSuccess(ur.item), stk)
    ELSE Ctl(IF "status" \in DOMAIN ur THEN "UL88" ELSE "BP190",
             stk, cur, <<>>, result)

FinishTransfer(ur, stk) ==
    IF ur.success
    THEN ReturnItem(ItemSuccess(ur.item), stk)
    ELSE ReturnItem(ItemFailure(<<"Upload failed: ">> \o Get(ur, "error")), stk)

\* an exception leaving upload_graph_file_to_s3, caught at process_item 173
EngineRaised(msg) == [raised |-> TRUE, error |-> msg]

\* process_item line 152 and process_folder line 191: the container path is
\* the batch's name itself
ContainerFolderPath(container) == container

taskVars == <<upload_items, idx, container_folder_name, now, used, inbox,
              pending>>

\* ------------------------------------------------------- process_item steps
\* line 152-158: create the container folder
PI_create_empty_folder ==
    /\ pc = "PI152"
    /\ \E a \in CreateAnswers :
         LET path == ContainerFolderPath(container_folder_name)
             r == create_empty_folder(path, a)
         IN
         /\ calls' = Append(calls, Call("create_folder", path, <<>>, a.out))
         /\ IF ~r.success
            THEN Apply(ReturnItem(ItemFailure(
                     <<"Error creating scoped upload folder: ">> \o Get(r, "message")), stack))
            ELSE IF ~FolderUuid(r).ok
            THEN Apply(ReturnItem(ItemFailure(FolderUuid(r).error), stack))
            ELSE IF FolderUuid(r).uuid = <<>>
            THEN Apply(ReturnItem(ItemFailure(
                     <<"Error creating scoped upload folder: No UUID returned">>), stack))
            ELSE Apply(Ctl("PI160", stack,
                           [cur EXCEPT !.uuid = FolderUuid(r).uuid], <<>>, result))
    /\ UNCHANGED <<taskVars, upload_result, owner, tempFiles, tmpCount>>

\* line 160-167: tag the folder, build the path, enter upload_graph_file_to_s3
PI_update_user_meta ==
    /\ pc = "PI160"
    /\ \E o \in TagOutcomes :
         LET r == update_user_meta(o)
             path == CuratePath(container_folder_name, cur.folder, cur.item.name)
         IN
         /\ calls' = Append(calls, Call("user_meta", cur.uuid, <<>>, o))
         /\ IF ItemTagFailed(r)
            THEN Apply(ReturnItem(ItemFailure(
                     <<"Error updating user meta: ">> \o Get(r, "message")), stack))
            ELSE Apply(Ctl(IF UseBuffered(cur.item.fileSize, MULTIPART_THRESHOLD)
                           THEN "UL88" ELSE "BP190",
                           stack, [cur EXCEPT !.path = path], <<>>, result))
    /\ UNCHANGED <<taskVars, upload_result, owner, tempFiles, tmpCount>>

\* ------------------------------------------- streaming path, uploader.py
\* build_presigned_put_url lines 189-201 (called at line 58, outside the try)
build_presigned_put_url ==
    /\ pc = "BP190"
    /\ \E o \in SignOutcomes :
         /\ calls' = Append(calls, Call("sign", cur.path, <<>>, o))
         /\ IF o = "ok"
            THEN /\ Apply(Ctl("UG61", stack, cur, <<>>, result))
                 /\ UNCHANGED upload_result
            ELSE /\ upload_result' = EngineRaised(<<"ClientError">>)
                 /\ Apply(ReturnItem(ItemFailure(<<"ClientError">>), stack))
    /\ UNCHANGED <<taskVars, owner, tempFiles, tmpCount>>

\* line 61: open the source content stream; only HTTPStatusError is caught
\* at line 64, a connection error leaves the engine as an exception
stream_get ==
    /\ pc = "UG61"
    /\ \/ /\ calls' = Append(calls, Call("get_stream", cur.item.id, <<>>, "raise"))
          /\ upload_result' = EngineRaised(<<"ConnectError">>)
          /\ Apply(ReturnItem(ItemFailure(<<"ConnectError">>), stack))
       \/ \E r \in Responses :
            /\ calls' = Append(calls, Call("get_stream", cur.item.id,
                                           ReportedLength(r), StreamOutcome(r)))
            /\ Apply(Ctl("ST146", stack, [cur EXCEPT !.resp = r], <<>>, result))
            /\ UNCHANGED upload_result
    /\ UNCHANGED <<taskVars, owner, tempFiles, tmpCount>>

\* stream_graph_file_to_s3 lines 141-154
ContentLengthHeader(resp) ==
    IF "Content-Length" \in DOMAIN resp.headers
    THEN resp.headers["Content-Length"] ELSE <<"0">>

\* line 146: the PUT declares the forwarded Content-Length and sends the
\* bytes of the source response.  When the two differ the HTTP/1.1 layer
\* refuses the body with h11's LocalProtocolError
DeclaredLengthMet(resp) == ContentLengthHeader(resp) = Dec(resp.body)

LocalProtocolError(resp) ==
    IF resp.body > IntOf(ContentLengthHeader(resp))
    THEN <<"Too much data for declared Content-Length">>
    ELSE <<"Too little data for declared Content-Length">>

\* the answers a PUT of this response can get: a refused connection whatever
\* the body; a status only when the body went out as declared
StreamPutOutcomes(resp) ==
    IF DeclaredLengthMet(resp) THEN PutOutcomes
    ELSE {"request_error", "protocol_error"}

\* lines 141-154.  LocalProtocolError is neither of the exceptions caught at
\* 149 and 152 nor the one caught at line 64: it leaves the engine and is
\* caught at process_item line 173
stream_graph_file_to_s3 ==
    /\ pc = "ST146"
    /\ \E o \in StreamPutOutcomes(cur.resp), c \in PutSuccessCodes :
         /\ o # "ok" => c = 200
         /\ calls' = Append(calls, Call("put_presigned", cur.path,
                                        ContentLengthHeader(cur.resp), o))
         /\ IF o = "protocol_error"
            THEN /\ upload_result' = EngineRaised(LocalProtocolError(cur.resp))
                 /\ Apply(ReturnItem(ItemFailure(LocalProtocolError(cur.resp)),
                                     stack))
            ELSE LET ur == IF o = "ok"
                           THEN [success |-> TRUE, status |-> c, item |-> cur.path]
                           ELSE [success |-> FALSE,
                                 error |-> IF o = "status_error"
                                           THEN <<"HTTPStatusError">>
                                           ELSE <<"RequestError">>,
                                 item |-> cur.path]
                 IN /\ upload_result' = ur
                    /\ Apply(FinishTransfer(ur, stack))
    /\ UNCHANGED <<taskVars, owner, tempFiles, tmpCount>>

\* -------------------------------------------- buffered path, uploader.py
LargeFailure(msg, path) ==
    [success |-> FALSE, status |-> 500, error |-> msg, item |-> path]

\* upload_large_graph_file_to_s3 lines 88-104: download, write the temp file
large_download ==
    /\ pc = "UL88"
    /\ \/ /\ calls' = Append(calls, Call("get_content", cur.item.id, <<>>, "raise"))
          /\ upload_result' = LargeFailure(ConnectionError, cur.path)
          /\ Apply(FinishTransfer(LargeFailure(ConnectionError, cur.path), stack))
          /\ UNCHANGED <<tempFiles, tmpCount>>
       \/ \E r \in Responses :
            /\ calls' = Append(calls, Call("get_content", cur.item.id,
                                           ReportedLength(r), HttpOutcome(r)))
            /\ IF RaisesForStatus(r)
               THEN /\ upload_result' = LargeFailure(<<"HTTPError">>, cur.path)
                    /\ Apply(FinishTransfer(LargeFailure(<<"HTTPError">>, cur.path), stack))
                    /\ UNCHANGED <<tempFiles, tmpCount>>
               ELSE IF r.body = 0
               THEN /\ upload_result' = LargeFailure(<<"File size is 0">>, cur.path)
                    /\ Apply(FinishTransfer(LargeFailure(<<"File size is 0">>, cur.path), stack))
                    /\ UNCHANGED <<tempFiles, tmpCount>>
               ELSE /\ tmpCount' = tmpCount + 1
                    /\ tempFiles' = tempFiles \cup {tmpCount + 1}
                    /\ Apply(Ctl("UL119", stack,
                                 [cur EXCEPT !.resp = r, !.tmp = tmpCount + 1],
                                 <<>>, result))
                    /\ UNCHANGED upload_result
    /\ UNCHANGED <<taskVars, owner>>

\* lines 106-133: put_object, then os.unlink on the success path only
large_put_object ==
    /\ pc = "UL119"
    /\ \E o \in PutObjectOutcomes :
         LET ur == IF o = "ok"
                   THEN [success |-> TRUE, status |-> 200, item |-> cur.path]
                   ELSE LargeFailure(<<"ClientError">>, cur.path)
         IN
         /\ calls' = Append(calls, Call("put_object", cur.path, Dec(cur.resp.body), o))
         /\ tempFiles' = IF o = "ok" THEN tempFiles \ {cur.tmp} ELSE tempFiles
         /\ upload_result' = ur
         /\ Apply(FinishTransfer(ur, stack))
    /\ UNCHANGED <<taskVars, owner, tmpCount>>

\* ---------------------------------------------------- process_folder steps
Top == stack[Len(stack)]

SetTop(f) == [stack EXCEPT ![Len(stack)] = f]

\* lines 191-197: create the container folder
PF_create_container ==
    /\ pc = "PF191"
    /\ \E a \in CreateAnswers :
         LET path == ContainerFolderPath(container_folder_name)
             r == create_empty_folder(path, a)
         IN
         /\ calls' = Append(calls, Call("create_folder", path, <<>>, a.out))
         /\ IF ~r.success
            THEN Apply(Raise(<<"Error creating container folder: ">> \o Get(r, "message"),
                             result))
            ELSE IF ~FolderUuid(r).ok
            THEN Apply(Raise(FolderUuid(r).error, result))
            ELSE IF FolderUuid(r).uuid = <<>>
            THEN Apply(Raise(<<"Error creating container folder: No UUID returned">>,
                             result))
            ELSE Apply(Ctl("PF199",
                           SetTop([Top EXCEPT !.uuid = FolderUuid(r).uuid]),
                           cur, <<>>, result))
    /\ UNCHANGED <<taskVars, upload_result, owner, tempFiles, tmpCount>>

\* lines 199-203: tag the container, then evaluate folder_item.name for the
\* subfolder path (an AttributeError when folder_item is a listing dict)
PF_update_user_meta ==
    /\ pc = "PF199"
    /\ \E o \in TagOutcomes :
         LET r == update_user_meta(o) IN
         /\ calls' = Append(calls, Call("user_meta", Top.uuid, <<>>, o))
         /\ IF FolderTagFailed(r)
            THEN Apply(Raise(<<"Error updating user meta for container folder: ">>
                             \o Get(r, "message"), result))
            ELSE IF ~HasAttrs(Top.folder_item)
            THEN Apply(Raise(<<"'dict' object has no attribute 'name'">>, result))
            ELSE Apply(Ctl("PF203", stack, cur, <<>>, result))
    /\ UNCHANGED <<taskVars, upload_result, owner, tempFiles, tmpCount>>

\* lines 203-209: create the same-named subfolder
PF_create_subfolder ==
    /\ pc = "PF203"
    /\ \E a \in CreateAnswers :
         LET sub == container_folder_name \o <<"/">> \o Top.folder_item.name
             r == create_empty_folder(sub, a)
         IN
         /\ calls' = Append(calls, Call("create_folder", sub, <<>>, a.out))
         /\ IF ~r.success
            THEN Apply(Raise(<<"Error creating subfolder: ">> \o Get(r, "message"), result))
            ELSE IF ~FolderUuid(r).ok
            THEN Apply(Raise(FolderUuid(r).error, result))
            ELSE IF FolderUuid(r).uuid = <<>>
            THEN Apply(Raise(<<"Error creating subfolder: No UUID returned">>, result))
            ELSE Apply(Ctl("PF211",
                           SetTop([Top EXCEPT !.uuid = FolderUuid(r).uuid]),
                           cur, <<>>, result))
    /\ UNCHANGED <<taskVars, upload_result, owner, tempFiles, tmpCount>>

\* lines 211-218: list the children (graph_tools.py 92-97), then loop.  An
\* HTTP error comes back as {'error': ..} and files['value'] is a KeyError;
\* a connection error is not caught by list_files_in_folder at all.
PF_list_files_in_folder ==
    /\ pc = "PF211"
    /\ \/ \E o \in {"http_error", "raise"} :
            /\ calls' = Append(calls, Call("list_children", Top.folder_item.id, <<>>, o))
            /\ Apply(Raise(IF o = "raise" THEN ConnectionError ELSE <<"'value'">>,
                           result))
       \/ \E files \in Listings :
            /\ calls' = Append(calls, Call("list_children", Top.folder_item.id,
                                           Kinds(files), "ok"))
            /\ Apply(Continue(SetTop([Top EXCEPT !.files = files]), result))
    /\ UNCHANGED <<taskVars, upload_result, owner, tempFiles, tmpCount>>

\* ------------------------------------------------------- upload_task steps
Item == upload_items[idx]

\* end of one loop iteration: the next item, or line 122
NextItemStuck ==
    /\ idx' = idx
    /\ pc' = "L106"
    /\ stack' = <<>>
    /\ cur' = NoCur

NextItem ==
    /\ idx' = idx + 1
    /\ pc' = IF idx + 1 > Len(upload_items) THEN "done" ELSE "L106"
    /\ stack' = <<>>
    /\ cur' = NoCur

\* line 106: the "Initiating" write, then line 108 dispatches on item.type.
\* The history of the previous item (calls, result, upload_result) is dropped
\* here: a new iteration assigns every local before reading it.
update_initiating ==
    /\ pc = "L106"
    /\ \E o \in WriteOutcomes :
         /\ calls' = update_drive_item_metadata(Item, <<"Initiating">>, o)
         /\ owner' = idx
         /\ upload_result' = NoResult
         /\ IF Raised(o)
            THEN Apply(Raise(ConnectionError, NoResult))
            ELSE IF Item.type = <<"Folder">>
            THEN Apply(Ctl("PF191", <<Frame(Item)>>, NoCur, <<>>, NoResult))
            ELSE Apply(EnterItem(Item, NoFolder, <<>>, NoResult))
    /\ UNCHANGED <<taskVars, tempFiles, tmpCount>>

\* line 117: the terminal write of the try block
update_final ==
    /\ pc = "L117"
    /\ \E o \in WriteOutcomes :
         /\ calls' = calls \o update_drive_item_metadata(Item, status, o)
         /\ IF Raised(o)
            THEN /\ Apply(Raise(ConnectionError, result))
                 /\ UNCHANGED idx
            ELSE /\ NextItem
                 /\ UNCHANGED <<status, result>>
    /\ UNCHANGED <<upload_items, container_folder_name, now, used, inbox, pending,
                   upload_result, owner, tempFiles, tmpCount>>

\* line 120: the write of the except handler; an exception here leaves the
\* for loop and is re-raised at line 125
update_failed ==
    /\ pc = "L120"
    /\ \E o \in WriteOutcomes :
         /\ calls' = calls \o update_drive_item_metadata(Item, status, o)
         /\ IF Raised(o)
            THEN /\ pc' = "raised"
                 /\ UNCHANGED <<idx, stack, cur>>
            ELSE NextItem
    /\ UNCHANGED <<upload_items, container_folder_name, now, used, inbox, pending,
                   status, result,
                   upload_result, owner, tempFiles, tmpCount>>

\* lines 87-101 of a task called with `data`: fresh locals, token, empty
\* check, container name
BeginTask(data) ==
    /\ upload_items' = data
    /\ stack' = <<>>
    /\ cur' = NoCur
    /\ status' = <<>>
    /\ result' = NoResult
    /\ upload_result' = NoResult
    /\ calls' = <<>>
    /\ owner' = 0
    /\ \E o \in TokenOutcomes :
         IF o = "raise"
         THEN /\ pc' = "raised"
              /\ idx' = 0
              /\ container_folder_name' = <<>>
              /\ UNCHANGED used
         ELSE IF data = <<>>
         THEN /\ pc' = "done"
              /\ idx' = 0
              /\ container_folder_name' = <<>>
              /\ UNCHANGED used
         ELSE /\ pc' = "L106"
              /\ idx' = 1
              /\ container_folder_name' = upload_container_name_format(now)
              /\ used' = Append(used, upload_container_name_format(now))
    /\ UNCHANGED <<now, inbox, tempFiles, tmpCount>>

\* the task of the package that was accepted
upload_task ==
    /\ pc = "queued"
    /\ BeginTask(upload_items)
    /\ UNCHANGED pending

\* lines 67-77: the request handler queues the task and answers at once.
\* One package is followed from its acceptance to the end of its task.
upload_sharepoint_package ==
    /\ pc = "idle"
    /\ \E d \in Batches :
         /\ upload_items' = d
         /\ pc' = "queued"
    /\ UNCHANGED <<idx, container_folder_name, stack, cur, status, result,
                   upload_result, calls, owner, tempFiles, tmpCount,
                   now, used, inbox, pending>>

Init ==
    /\ pc = "idle"
    /\ upload_items = <<>>
    /\ idx = 0
    /\ container_folder_name = <<>>
    /\ stack = <<>>
    /\ cur = NoCur
    /\ status = <<>>
    /\ result = NoResult
    /\ upload_result = NoResult
    /\ calls = <<>>
    /\ owner = 0
    /\ tempFiles = {}
    /\ tmpCount = 0
    /\ now \in ClockReadings
    /\ used = <<>>
    /\ inbox = <<>>
    /\ pending = <<>>

Next ==
    \/ upload_sharepoint_package
    \/ upload_task
    \/ update_initiating
    \/ PI_create_empty_folder
    \/ PI_update_user_meta
    \/ build_presigned_put_url
    \/ stream_get
    \/ stream_graph_file_to_s3
    \/ large_download
    \/ large_put_object
    \/ PF_create_container
    \/ PF_update_user_meta
    \/ PF_create_subfolder
    \/ PF_list_files_in_folder
    \/ update_final
    \/ update_failed

Spec == Init /\ [][Next]_vars

\* ------------------------------------------- two requests on one event loop
\* upload_task is declared async (line 80) but contains no await: every call
\* it makes blocks.  The server awaits a coroutine background task on its
\* event loop, so from the moment upload_task starts until it returns or
\* raises the loop runs nothing else: a request that arrives meanwhile waits
\* in the inbox.  When no task is running the loop is free.
LoopFree == pc \in {"idle", "done", "raised"}

\* two packages of one item each, sent by different clients
RequestPairs == {<<<<a>>, <<b>>>> : a \in Items, b \in Items}

RemoveAt(s, i) == SubSeq(s, 1, i - 1) \o SubSeq(s, i + 1, Len(s))

\* lines 67-77 for the next waiting request, whenever the loop is free: the
\* task is added to the background tasks of its own response (line 73) and
\* the handler returns; the task waits until its response has been sent
serve_request ==
    /\ LoopFree
    /\ inbox # <<>>
    /\ inbox' = Tail(inbox)
    /\ pending' = Append(pending, Head(inbox))
    /\ UNCHANGED <<pc, upload_items, idx, container_folder_name, stack, cur,
                   status, result, upload_result, calls, owner, tempFiles, tmpCount, now, used>>

\* line 73, then line 80: a response has been sent and its task starts.  Each
\* response is sent on its own connection, so the waiting tasks start in any
\* order, one at a time
run_background_task ==
    /\ LoopFree
    /\ \E i \in 1..Len(pending) :
         /\ BeginTask(pending[i])
         /\ pending' = RemoveAt(pending, i)

\* the clock of line 65 advances by one second
Tick ==
    /\ \E t \in ClockReadings : now + 1 <= t + MaxTicks
    /\ now' = now + 1
    /\ UNCHANGED <<pc, upload_items, idx, container_folder_name, stack, cur,
                   status, result, upload_result, calls, owner, tempFiles, tmpCount, used, inbox, pending>>

InitServer ==
    /\ pc = "idle"
    /\ upload_items = <<>>
    /\ idx = 0
    /\ container_folder_name = <<>>
    /\ stack = <<>>
    /\ cur = NoCur
    /\ status = <<>>
    /\ result = NoResult
    /\ upload_result = NoResult
    /\ calls = <<>>
    /\ owner = 0
    /\ tempFiles = {}
    /\ tmpCount = 0
    /\ now \in ClockReadings
    /\ used = <<>>
    /\ inbox \in RequestPairs
    /\ pending = <<>>

NextServer ==
    \/ serve_request
    \/ run_background_task
    \/ Tick
    \/ update_initiating
    \/ PI_create_empty_folder
    \/ PI_update_user_meta
    \/ build_presigned_put_url
    \/ stream_get
    \/ stream_graph_file_to_s3
    \/ large_download
    \/ large_put_object
    \/ PF_create_container
    \/ PF_update_user_meta
    \/ PF_create_subfolder
    \/ PF_list_files_in_folder
    \/ update_final
    \/ update_failed

SpecServer == InitServer /\ [][NextServer]_vars

\* ===================================================================
\* Properties
\* ===================================================================
CallIdx == 1..Len(calls)

OwnerItem == upload_items[owner]

\* the loop iteration of item `owner` is over (normally or by an exception)
ItemFinished == owner >= 1 /\ (idx > owner \/ pc = "raised")

IsInitWrite(c) == c.op = "patch" /\ c.val = <<"Initiating">>

IsTermWrite(c) == c.op = "patch" /\ c.val # <<"Initiating">>

\* one status write = one invocation of update_drive_item_metadata, which
\* starts with the search of line 165
IsInitAttempt(c) == c.op = "search" /\ c.val = <<"Initiating">>

IsTermAttempt(c) == c.op = "search" /\ c.val # <<"Initiating">>

IsFailedStatus(st) == Len(st) >= 1 /\ st[1] = "Failed: "

Count(P(_)) == Cardinality({i \in CallIdx : P(calls[i])})

BufferedOps == {"get_content", "put_object"}
StreamingOps == {"sign", "get_stream", "put_presigned"}
EngineOps == BufferedOps \cup StreamingOps
StatusOps == {"search", "patch"}

AllCallsOk == \A i \in CallIdx : calls[i].out = "ok"

\* C1: for every item whose iteration is over, exactly one "Initiating" write
\* and exactly one terminal write ("Success" or "Failed: ...") were made, the
\* "Initiating" one first, whatever step raised.
C1_OneInitiatingOneTerminal ==
    ItemFinished =>
        /\ Count(IsInitAttempt) = 1
        /\ Count(IsTermAttempt) = 1
        /\ \A i, j \in CallIdx :
               IsInitAttempt(calls[i]) /\ IsTermAttempt(calls[j]) => i < j

\* C2: a failure while processing one item never stops the run: when the task
\* has ended, the item it worked on last is the last item of the batch.
C2_LaterItemsStillAttempted ==
    (pc \in {"done", "raised"} /\ owner >= 1) => owner = Len(upload_items)

\* C3 (as stated): a file item declared larger than 1 GiB triggers no network
\* call to the source or to the destination during its processing in a batch.
Oversized(item) ==
    /\ item.type = <<"File">>
    /\ IntOk(item.fileSize)
    /\ IntOf(item.fileSize) > 1024 * 1024 * 1024

C3_NoNetworkCallAtAll ==
    (owner >= 1 /\ Oversized(OwnerItem)) =>
        \A i \in CallIdx : calls[i].op \notin (SourceOps \cup DestOps)

InitWriteRaised == \E i \in CallIdx : i <= 2 /\ calls[i].out = "raise"

\* C3 (amended): for a file item declared larger than 1 GiB the only network
\* calls are the source status writes of upload_task; process_item makes no
\* call, creates no destination folder or object, and as soon as the
\* "Initiating" write has returned its result is the size-limit failure.
C3_OnlyStatusWrites ==
    (owner >= 1 /\ Oversized(OwnerItem)) =>
        /\ \A i \in CallIdx : calls[i].op \in StatusOps
        /\ pc \in {"L106", "L117", "L120", "done", "raised"}
        /\ ~InitWriteRaised =>
               /\ "success" \in DOMAIN result
               /\ ~result.success
               /\ result.message = SizeLimitMsg

C3_Witness ==
    /\ ItemFinished
    /\ Oversized(OwnerItem)
    /\ OwnerItem.fileSize = Dec(1024 * 1024 * 1024 + 1)
    /\ "success" \in DOMAIN result
    /\ result.message = SizeLimitMsg
    /\ \E i \in CallIdx : IsTermWrite(calls[i]) /\ IsFailedStatus(calls[i].val)

\* C4: a transfer takes the buffered path exactly when the declared size is
\* at least 100 MiB (100 MiB itself included) and the streaming path exactly
\* when it is below; never both, and no presigned URL is requested at or
\* above the threshold.
EngineEntered ==
    \E i \in CallIdx : calls[i].op = "user_meta" /\ calls[i].out = "ok"

BufferedTaken ==
    pc \in {"UL88", "UL119"} \/ \E i \in CallIdx : calls[i].op \in BufferedOps

StreamingTaken ==
    pc \in {"BP190", "UG61", "ST146"} \/ \E i \in CallIdx : calls[i].op \in StreamingOps

C4_PathBySize ==
    (owner >= 1 /\ OwnerItem.type = <<"File">> /\ IntOk(OwnerItem.fileSize)) =>
        LET big == IntOf(OwnerItem.fileSize) >= 100 * 1024 * 1024 IN
        /\ BufferedTaken => big
        /\ StreamingTaken => ~big
        /\ EngineEntered => (BufferedTaken /\ big) \/ (StreamingTaken /\ ~big)
        /\ ~(BufferedTaken /\ StreamingTaken)

C4_Witness ==
    /\ owner >= 1
    /\ OwnerItem.fileSize = Dec(100 * 1024 * 1024)
    /\ \E i \in CallIdx : calls[i].op = "put_object" /\ calls[i].out = "ok"
    /\ ~StreamingTaken

\* C5: the temporary file of a buffered transfer no longer exists once the
\* transfer has returned, success or failure: a temporary file exists only
\* while the upload of line 119 is pending.
C5_TempFileRemoved == pc # "UL119" => tempFiles = {}

\* C6: in the buffered path, after a download that delivered fewer bytes than
\* the Content-Length the source reported, no upload to the object store is
\* attempted (so the result cannot be a success).
C6_NoUploadAfterShortDownload ==
    \A i, j \in CallIdx :
        (/\ calls[i].op = "get_content"
         /\ calls[i].val # <<>>
         /\ calls[j].op = "put_object")
        => IntOf(calls[j].val) >= IntOf(calls[i].val)

\* C7: a top-level folder whose listing has N files and M empty subfolders,
\* every remote call succeeding, gives exactly N file-transfer attempts and
\* M+1 destination folders below the container.
FlatListing(c) ==
    /\ c.op = "list_children"
    /\ \A k \in 1..Len(c.val) : c.val[k] \in {"file", "empty"}

NumKind(c, kind) == Cardinality({k \in 1..Len(c.val) : c.val[k] = kind})

IsTransferAttempt(c) == c.op \in {"sign", "get_content"}

FoldersBelowContainer ==
    {calls[i].path : i \in {k \in CallIdx : /\ calls[k].op = "create_folder"
                                            /\ calls[k].path # container_folder_name}}

C7_FolderCounts ==
    (ItemFinished /\ OwnerItem.type = <<"Folder">> /\ AllCallsOk) =>
        \A i \in CallIdx :
            FlatListing(calls[i]) =>
                /\ Count(IsTransferAttempt) = NumKind(calls[i], "file")
                /\ Cardinality(FoldersBelowContainer) = NumKind(calls[i], "empty") + 1

\* C8: a batch of one flat folder of k files, every call accepted, ends with
\* a "Success" status and exactly k presigned uploads, each carrying the
\* Content-Length the source reported for the file.
IsPresignedUpload(c) == c.op = "put_presigned"

C8_FlatFolderRoundTrip ==
    (pc = "done" /\ upload_items = <<FolderItem>> /\ owner = 1 /\ AllCallsOk) =>
        \A i \in CallIdx :
            (FlatListing(calls[i]) /\ NumKind(calls[i], "file") = Len(calls[i].val)) =>
                /\ Count(IsPresignedUpload) = Len(calls[i].val)
                /\ calls[Len(calls)].val = <<"Success">>
                /\ \A j \in CallIdx :
                       IsPresignedUpload(calls[j]) =>
                           /\ calls[j - 1].op = "get_stream"
                           /\ calls[j].val = calls[j - 1].val

\* C9 (as stated): a failed contributor tagging does not fail the item: the
\* file transfer is still attempted.
TagFailedAt(i) == calls[i].op = "user_meta" /\ calls[i].out = "fail"

C9_TaggingFailureSwallowed ==
    (ItemFinished /\ \E i \in CallIdx : TagFailedAt(i)) =>
        \E j \in CallIdx : calls[j].op \in EngineOps

\* C9 (amended): a failed contributor tagging fails the item: nothing but
\* status writes follows it, each of them a "Failed: ..." status, no transfer
\* is attempted, and for a file item process_item returns success=false with
\* the tagging error.  The container tagging of process_folder behaves alike.
C9_TaggingFailureFailsItem ==
    \A i \in CallIdx :
        TagFailedAt(i) =>
            /\ \A j \in CallIdx :
                   j > i => /\ calls[j].op \in StatusOps
                            /\ IsFailedStatus(calls[j].val)
            /\ pc \in {"L106", "L117", "L120", "done", "raised"}
            /\ IsFailedStatus(status)
            /\ OwnerItem.type = <<"File">> =>
                   /\ ~result.success
                   /\ result.message = <<"Error updating user meta: ", "None">>

C9_Witness ==
    /\ ItemFinished
    /\ OwnerItem.type = <<"File">>
    /\ \E i \in CallIdx : TagFailedAt(i)
    /\ IsTermWrite(calls[Len(calls)])
    /\ calls[Len(calls)].out = "ok"
    /\ IsFailedStatus(calls[Len(calls)].val)

\* C10: a failed "Initiating" write (an error response or an exception) never
\* prevents the processing of the item from being attempted.
InitWriteFailed ==
    \E i \in CallIdx : i <= 2 /\ calls[i].out \in {"raise", "rejected"}

ProcessingAttempted ==
    \/ "success" \in DOMAIN result
    \/ \E i \in CallIdx : calls[i].op = "create_folder"

C10_StatusWriteFailureHarmless ==
    (ItemFinished /\ InitWriteFailed) => ProcessingAttempted

\* the terminal write made first for the item: the one that follows the
\* processing (line 117 after a normal return, line 120 after an exception)
FirstTermAttempt(i) ==
    /\ IsTermAttempt(calls[i])
    /\ \A j \in 1..(i - 1) : ~IsTermAttempt(calls[j])

\* process_folder returned normally: line 110 is the only assignment of
\* "Success" for a folder item, and the write of line 117 carries it
FolderReturned ==
    \E i \in CallIdx : FirstTermAttempt(i) /\ calls[i].val = <<"Success">>

\* process_folder raised: the handler of line 118 wrote first
FolderRaised ==
    \E i \in CallIdx : FirstTermAttempt(i) /\ IsFailedStatus(calls[i].val)

\* C11: for a top-level Folder item on which process_folder was called, every
\* terminal status written is "Success" exactly when process_folder returned
\* normally and "Failed: ..." exactly when process_folder raised.
C11_FolderStatusByOutcome ==
    (ItemFinished /\ OwnerItem.type = <<"Folder">> /\ ~InitWriteRaised) =>
        \A i \in CallIdx :
            IsTermAttempt(calls[i]) =>
                /\ calls[i].val = <<"Success">> <=> FolderReturned
                /\ IsFailedStatus(calls[i].val) <=> FolderRaised

\* C12: for a top-level File item whose process_item returned, the terminal
\* status written after it is "Success" when the result's success flag is
\* true and otherwise "Failed: " followed by the error detail that
\* process_item reported.
C12_FileStatusCarriesError ==
    (ItemFinished /\ OwnerItem.type = <<"File">> /\ "success" \in DOMAIN result) =>
        \A i \in CallIdx :
            FirstTermAttempt(i) =>
                calls[i].val = IF result.success THEN <<"Success">>
                               ELSE <<"Failed: ">> \o result.message

\* C13: the items of a batch are processed one after another in batch order:
\* every remote call made while an item is processed belongs to the item at
\* the loop position, the calls of an item begin with its "Initiating" write,
\* and the "Initiating" write of the next item comes only after a terminal
\* status write of the previous one.
ItemPcs == {"PI152", "PI160", "BP190", "UG61", "ST146", "UL88", "UL119",
            "PF191", "PF199", "PF203", "PF211", "L117", "L120"}

LastCallIsTerminalWrite ==
    /\ calls # <<>>
    /\ calls[Len(calls)].op \in StatusOps
    /\ calls[Len(calls)].val # <<"Initiating">>

C13_ItemsOneAfterAnother ==
    /\ calls # <<>> => owner \in 1..Len(upload_items) /\ IsInitAttempt(calls[1])
    /\ pc \in ItemPcs => owner = idx
    /\ pc = "L106" => /\ owner = idx - 1
                      /\ owner >= 1 => LastCallIsTerminalWrite
    /\ (pc = "done" /\ owner >= 1) =>
           owner = Len(upload_items) /\ LastCallIsTerminalWrite

C13_Witness ==
    /\ pc = "L106"
    /\ idx = 2
    /\ owner = 1
    /\ \E i \in CallIdx : calls[i].op = "put_presigned" /\ calls[i].out = "ok"
    /\ calls[Len(calls)].op = "patch"
    /\ calls[Len(calls)].val = <<"Success">>

\* C17: while a folder is expanded, every child that is a file is handed to
\* process_item and every child folder with at least one child is expanded
\* by a recursive process_folder with the same container, child by child in
\* listing order.  Both callees begin by creating the container folder (lines
\* 152 and 191), so with every remote call succeeding the listing of the
\* top-level folder is followed by one container creation per such child, and
\* by a transfer attempt per file child.
FirstListing(i) ==
    /\ calls[i].op = "list_children"
    /\ \A j \in 1..(i - 1) : calls[j].op # "list_children"

ContainerCreationsAfter(i) ==
    {j \in CallIdx : /\ j > i
                     /\ calls[j].op = "create_folder"
                     /\ calls[j].path = container_folder_name}

C17_ChildrenDispatched ==
    (ItemFinished /\ OwnerItem.type = <<"Folder">> /\ AllCallsOk) =>
        \A i \in CallIdx :
            FirstListing(i) =>
                /\ Cardinality(ContainerCreationsAfter(i))
                       >= NumKind(calls[i], "file") + NumKind(calls[i], "folder")
                /\ Count(IsTransferAttempt) >= NumKind(calls[i], "file")

\* C19: when a remote call of the folder expansion fails (container creation,
\* tagging, subfolder creation or listing), the error propagates: no file
\* transfer is attempted for the folder, nothing but the status write of the
\* handler follows, and exactly one terminal status is written, a "Failed"
\* one, on the top-level folder item.
ExpansionFailedAt(i) ==
    /\ calls[i].op \in {"create_folder", "user_meta", "list_children"}
    /\ calls[i].out # "ok"

C19_ExpansionFailurePropagates ==
    (owner >= 1 /\ OwnerItem.type = <<"Folder">>) =>
        \A i \in CallIdx :
            ExpansionFailedAt(i) =>
                /\ \A j \in CallIdx : calls[j].op \notin EngineOps
                /\ \A j \in CallIdx :
                       j > i => /\ calls[j].op \in StatusOps
                                /\ IsFailedStatus(calls[j].val)
                                /\ calls[j].path \in {OwnerItem.name, OwnerItem.spId}
                /\ \A j \in CallIdx : IsTermAttempt(calls[j]) => j = i + 1
                /\ pc \in {"L120", "L106", "done", "raised"}
                /\ IsFailedStatus(status)
                /\ pc # "L120" => Count(IsTermAttempt) = 1

C19_Witness ==
    /\ ItemFinished
    /\ OwnerItem.type = <<"Folder">>
    /\ \E i \in CallIdx : ExpansionFailedAt(i) /\ calls[i].op = "list_children"
    /\ calls[Len(calls)].op = "patch"
    /\ calls[Len(calls)].out = "ok"
    /\ calls[Len(calls)].val = <<"Failed: ", "'value'">>

\* C20: every destination path used for a batch starts with the batch's
\* container folder name; a top-level file is transferred to
\* <container>/<file name>, and a file found in a folder is transferred to
\* <container>/<folder name>/<file name>.
PathOps == DestOps \ {"user_meta"}

StartsWith(s, prefix) ==
    Len(s) >= Len(prefix) /\ SubSeq(s, 1, Len(prefix)) = prefix

IsObjectWrite(c) == c.op \in {"sign", "put_presigned", "put_object"}

C20_PathsUnderContainer ==
    owner >= 1 =>
        /\ \A i \in CallIdx :
               calls[i].op \in PathOps =>
                   StartsWith(calls[i].path, container_folder_name)
        /\ OwnerItem.type = <<"File">> =>
               \A i \in CallIdx :
                   IsObjectWrite(calls[i]) =>
                       calls[i].path = container_folder_name \o <<"/">>
                                       \o OwnerItem.name
        /\ (ItemFinished /\ OwnerItem.type = <<"Folder">> /\ AllCallsOk) =>
               \A i \in CallIdx :
                   (FirstListing(i) /\ NumKind(calls[i], "file") > 0) =>
                       \E j \in CallIdx :
                           /\ IsObjectWrite(calls[j])
                           /\ calls[j].path = container_folder_name \o <<"/">>
                                  \o OwnerItem.name \o <<"/">> \o FileEntry.name

\* C18: folder expansion terminates and upload_task comes to its end.  Every
\* step of the task strictly decreases a natural-number measure (the items
\* left in the batch first, the calls left for the current item second), so
\* no run goes on forever; and every activation of process_folder below the
\* first one works on a child that its caller's listing returned.
StepsLeft ==
    CASE pc = "L106" -> 30
      [] pc \in {"PF191", "PF199", "PF203", "PF211"} ->
             (IF Len(stack) = 1 THEN 20 ELSE 10)
             + (CASE pc = "PF191" -> 4 [] pc = "PF199" -> 3
                  [] pc = "PF203" -> 2 [] OTHER -> 1)
      [] pc = "PI152" -> 9
      [] pc = "PI160" -> 8
      [] pc \in {"BP190", "UL88"} -> 7
      [] pc \in {"UG61", "UL119"} -> 6
      [] pc = "ST146" -> 5
      [] pc = "L117" -> 2
      [] pc = "L120" -> 1
      [] OTHER -> 0

Measure ==
    CASE pc = "idle" -> 40 * (MaxItems + 1) + 36
      [] pc = "queued" -> 40 * Len(upload_items) + 35
      [] pc \in {"done", "raised"} -> 0
      [] OTHER -> 40 * (Len(upload_items) - idx) + StepsLeft

NestedOnListedChild ==
    \A k \in 2..Len(stack) :
        /\ stack[k - 1].i \in 1..Len(stack[k - 1].files)
        /\ stack[k].folder_item = stack[k - 1].files[stack[k - 1].i]

C18_ExpansionTerminates ==
    [][Measure' < Measure /\ Measure' >= 0 /\ NestedOnListedChild']_vars

C18_Witness ==
    /\ pc = "done"
    /\ owner >= 1
    /\ owner = Len(upload_items)
    /\ OwnerItem.type = <<"Folder">>
    /\ \E i \in CallIdx :
           /\ FirstListing(i)
           /\ calls[i].out = "ok"
           /\ NumKind(calls[i], "folder") > 0
           /\ Cardinality(ContainerCreationsAfter(i)) = 1

\* C14: two batches submitted by different requests can run concurrently:
\* while the task of one batch is about to wait on a network call, the other
\* batch can make progress: its request, if it waits, can be handled, and
\* its task, if it waits for its start, can start.
WaitsOnNetwork == pc \in ItemPcs \cup {"L106"}

C14_BatchesInterleave ==
    WaitsOnNetwork =>
        /\ inbox # <<>> => ENABLED serve_request
        /\ pending # <<>> => ENABLED run_background_task

\* C15: any two batches use different container folder names.
C15_ContainerNameUnique ==
    \A i, j \in 1..Len(used) : i # j => used[i] # used[j]

\* C21: every outcome of upload_graph_file_to_s3, on either path, is a result
\* value with a success flag, a status code and the destination path, and
\* with an error detail when it is a failure; the engine never raises.
C21_UniformEngineResult ==
    upload_result # NoResult =>
        /\ "raised" \notin DOMAIN upload_result
        /\ {"success", "status", "item"} \subseteq DOMAIN upload_result
        /\ ~upload_result.success => "error" \in DOMAIN upload_result

\* C23: on the streaming path, when the source answers the content request
\* with a non-2xx status, the body of that answer is not stored in the
\* destination as the file's content (no upload of it is accepted) and the
\* transfer result is not a success.
C23_NoUploadOfErrorBody ==
    \A i \in CallIdx :
        (calls[i].op = "get_stream" /\ calls[i].out = "http_error") =>
            /\ \A j \in CallIdx :
                   j > i => ~(calls[j].op = "put_presigned" /\ calls[j].out = "ok")
            /\ "success" \in DOMAIN upload_result => ~upload_result.success

\* C22: nothing is retried within a run.  Once a remote operation of an item
\* has failed, the same operation (same kind and target; for a status write
\* the same status) is not issued again for that item, and the loop only
\* moves forward: the item about to start is the one after the item
\* processed last, so no item is processed twice.
Reissued(i, j) ==
    /\ i < j
    /\ calls[i].out # "ok"
    /\ calls[j].op = calls[i].op
    /\ calls[j].path = calls[i].path
    /\ calls[i].op \in StatusOps => calls[j].val = calls[i].val

C22_NoRetry ==
    /\ \A i, j \in CallIdx : ~Reissued(i, j)
    /\ owner <= idx
    /\ pc = "L106" => owner = idx - 1
    /\ pc \in ItemPcs => owner = idx

C22_Witness ==
    /\ pc = "L106"
    /\ idx = 2
    /\ owner = 1
    /\ \E i \in CallIdx : calls[i].op = "put_presigned" /\ calls[i].out = "status_error"
    /\ Count(IsPresignedUpload) = 1
    /\ calls[Len(calls)].op = "patch"
    /\ IsFailedStatus(calls[Len(calls)].val)

\* C24: a top-level folder item gets the terminal status "Success" only if
\* every file of its subtree was transferred successfully: when "Success"
\* is written, the listing of the folder is matched by one successful object
\* write per file child at <container>/<folder>/<file>, every child folder
\* that has children was listed in turn, and no process_item call made for
\* the folder reported a failure.
IsObjectStored(c) == c.op \in {"put_presigned", "put_object"} /\ c.out = "ok"

SuccessWritten ==
    \E t \in CallIdx : IsTermAttempt(calls[t]) /\ calls[t].val = <<"Success">>

C24_FolderSuccessNeedsAllFiles ==
    (owner >= 1 /\ OwnerItem.type = <<"Folder">> /\ SuccessWritten) =>
        /\ "success" \in DOMAIN result => result.success
        /\ \A i \in CallIdx :
               FirstListing(i) =>
                   /\ Cardinality({j \in CallIdx :
                          /\ IsObjectStored(calls[j])
                          /\ calls[j].path = container_folder_name \o <<"/">>
                                 \o OwnerItem.name \o <<"/">> \o FileEntry.name})
                        >= NumKind(calls[i], "file")
                   /\ Cardinality({j \in CallIdx : calls[j].op = "list_children"})
                        >= 1 + NumKind(calls[i], "folder")

\* a folder holding a file that was not transferred, and its status
C24_Witness ==
    /\ ItemFinished
    /\ OwnerItem.type = <<"Folder">>
    /\ \E i \in CallIdx :
           FirstListing(i) /\ calls[i].out = "ok" /\ NumKind(calls[i], "file") > 0
    /\ \A j \in CallIdx : ~IsObjectStored(calls[j])
    /\ calls[Len(calls)].op = "patch"
    /\ calls[Len(calls)].out = "ok"
    /\ IsFailedStatus(calls[Len(calls)].val)
    /\ ~SuccessWritten

====
